---------------------------- MODULE Spec2Model ----------------------------
(***************************************************************************)
(* libusbnet client (src/src/usbnet.c): the call serialization, the        *)
(* request/response discipline of every libusb entry point, the device     *)
(* handle life cycle and the bus/device tree synchronisation done by       *)
(* usb_find_devices.                                                       *)
(*                                                                         *)
(* The packet codec (protocol.h: pkt_*, iter_*, as_int, as_uint) is not    *)
(* part of usbnet.c.  It is modelled as a flat tag/length/value stream:    *)
(* a packet body is a sequence of tokens, a structural token (structure,   *)
(* sequence) carries the number of tokens nested in it, iter_next moves    *)
(* past the current token and everything nested in it, iter_enter moves    *)
(* to the first nested token.                                              *)
(***************************************************************************)
EXTENDS Integers, Sequences, FiniteSets, TLC

\* --------------------------------------------------------------- bounds
\* number of caller threads
NThreads == 2
\* number of public calls started in one behaviour
MaxCalls == 3
\* number of enumerations in a run of enumerations
MaxSyncs == 3
\* number of addresses the allocator hands out in one behaviour
MaxAddr == 9

\* ------------------------------------------------------- program constants
NULL == 0
\* __remote_fd when no descriptor is cached
NoFd == 0 - 1
\* address of the call-local list heads of usb_find_devices
VBUS == 0 - 2
VDEV == 0 - 3
\* value of a pointer field that was never assigned (malloc'ed storage)
WILD == 0 - 4
\* the unset selector of a device handle
Unset == 0 - 1
\* byte offset of bNumInterfaces / bNumEndpoints / bNumConfigurations
OffNumInterfaces == 4
OffNumEndpoints == 4
OffNumConfigurations == 17
\* sizeof(struct usb_device_descriptor), usb_config_descriptor,
\* usb_interface_descriptor, usb_endpoint_descriptor
SizeDeviceDescriptor == 18
SizeConfigDescriptor == 40
SizeInterfaceDescriptor == 40
SizeEndpointDescriptor == 32

Threads == 1..NThreads
NoThread == 0

\* ------------------------------------------------------------ wire tags
InvalidType   == "InvalidType"
IntegerType   == "IntegerType"
OctetType     == "OctetType"
RawType       == "RawType"
StructureType == "StructureType"
SequenceType  == "SequenceType"

UsbInit               == "UsbInit"
UsbFindBusses         == "UsbFindBusses"
UsbFindDevices        == "UsbFindDevices"
UsbOpen               == "UsbOpen"
UsbClose              == "UsbClose"
UsbSetConfiguration   == "UsbSetConfiguration"
UsbSetAltInterface    == "UsbSetAltInterface"
UsbResetEp            == "UsbResetEp"
UsbClearHalt          == "UsbClearHalt"
UsbReset              == "UsbReset"
UsbClaimInterface     == "UsbClaimInterface"
UsbReleaseInterface   == "UsbReleaseInterface"
UsbControlMsg         == "UsbControlMsg"
UsbBulkRead           == "UsbBulkRead"
UsbBulkWrite          == "UsbBulkWrite"
UsbInterruptWrite     == "UsbInterruptWrite"
UsbInterruptRead      == "UsbInterruptRead"
UsbDetachKernelDriver == "UsbDetachKernelDriver"
\* the helpers built on usb_control_msg (lines 978-1032); they have no
\* opcode of their own
UsbGetString          == "UsbGetString"
UsbGetStringSimple    == "UsbGetStringSimple"

\* operations that return only the primary integer result
PlainOps == {UsbResetEp, UsbClearHalt, UsbReset, UsbClaimInterface,
             UsbReleaseInterface, UsbBulkWrite, UsbInterruptWrite,
             UsbDetachKernelDriver}
\* operations that copy a byte payload to the caller
ReadOps == {UsbControlMsg, UsbBulkRead, UsbInterruptRead}
SelectorOps == {UsbSetConfiguration, UsbSetAltInterface}
\* operations on an open handle
HandleOps == PlainOps \cup ReadOps \cup SelectorOps \cup {UsbClose}
OneShotOps == HandleOps \cup {UsbOpen}
EnumOps == {UsbFindBusses, UsbFindDevices}
AllOps == OneShotOps \cup EnumOps \cup {UsbInit}
StringOps == {UsbGetString, UsbGetStringSimple}
\* usb_get_string_simple: char tbuf[255] (line 990)
SizeTbuf == 255

\* ------------------------------------------------------------ the codec
\* a length that is never clamped
MinFirst(a, b) == a

Min(a, b) == IF a < b THEN a ELSE b

RECURSIVE Pow256(_)
Pow256(n) == IF n = 0 THEN 1 ELSE 256 * Pow256(n - 1)

\* the C conversion of a value to a 32 bit int
Int32Max == 2147483647
ToInt32(x) == IF x > Int32Max THEN ((x - Int32Max) - Int32Max) - 2 ELSE x

\* as_uint(val, len): the bytes of the field as an unsigned number
RECURSIVE as_uint(_)
as_uint(val) == IF val = <<>> THEN 0
                ELSE val[1] + 256 * as_uint(Tail(val))

\* as_int(val, len): the bytes of the field as a signed number of that width
as_int(val) == LET u == as_uint(val)
                   w == Pow256(Len(val))
               IN  IF val # <<>> /\ 2 * u >= w THEN u - w ELSE u

Tok(type, val, skip) == [type |-> type, val |-> val, skip |-> skip]
IntTok(b)   == Tok(IntegerType, <<b>>, 0)
Int2Tok(lo, hi) == Tok(IntegerType, <<lo, hi>>, 0)
OctTok(s)   == Tok(OctetType, s, 0)
RawTok(s)   == Tok(RawType, s, 0)

RECURSIVE Concat(_)
Concat(ss) == IF ss = <<>> THEN <<>> ELSE Head(ss) \o Concat(Tail(ss))

\* a structural element holding the given parts (each a token sequence)
Block(type, parts) == LET inner == Concat(parts)
                      IN  <<Tok(type, <<>>, Len(inner))>> \o inner

\* the cursor: pos the current token, nxt the token iter_next loads
NoIt == [pos |-> 0, nxt |-> 1, type |-> InvalidType, val |-> <<>>]

iter_end(body, it) == it.nxt > Len(body)

\* iter_next: at the end the cursor stays as it is and the call returns NULL
iter_next(body, it) ==
    IF iter_end(body, it) THEN it
    ELSE LET tk == body[it.nxt]
         IN  [pos |-> it.nxt, nxt |-> it.nxt + 1 + tk.skip,
              type |-> tk.type, val |-> tk.val]

iter_enter(body, it) ==
    IF it.type \in {StructureType, SequenceType}
    THEN iter_next(body, [it EXCEPT !.nxt = it.pos + 1])
    ELSE it

pkt_begin(body) == iter_next(body, NoIt)

\* as_string(val, len): the bytes of the field up to the first NUL
RECURSIVE as_string(_)
as_string(val) == IF val = <<>> \/ Head(val) = 0 THEN <<>>
                  ELSE <<Head(val)>> \o as_string(Tail(val))

\* -------------------------------------------------- enumeration payloads
\* raw descriptors as the remote side packs them
DeviceDesc == <<18, 1, 0, 2, 9, 0, 0, 64, 107, 29, 2, 0, 0, 1, 0, 0, 0, 1>>
ConfigDesc(nif) == <<9, 2, 0, 0, nif, 1, 0, 0, 0>>
InterfaceDesc(nep) == <<9, 4, 0, 0, nep, 9, 0, 0, 0>>
EndpointDesc == <<7, 5, 129, 3, 0, 2, 12>>

\* a device record without interfaces
DevA(k) == Block(SequenceType,
                 << <<OctTok(<<k>>)>>, <<RawTok(DeviceDesc)>>,
                    <<RawTok(ConfigDesc(0))>>, <<IntTok(k)>> >>)
\* a device record with one interface, one alt-setting and one endpoint
DevB(k) == Block(SequenceType,
                 << <<OctTok(<<k>>)>>, <<RawTok(DeviceDesc)>>,
                    <<RawTok(ConfigDesc(1))>>, <<IntTok(1)>>,
                    <<RawTok(InterfaceDesc(1))>>, <<RawTok(EndpointDesc)>>,
                    <<IntTok(k)>> >>)
\* a bus record: directory name, location, device records
\* a device record without a configuration descriptor
DevC(k) == Block(SequenceType, << <<OctTok(<<k>>)>>, <<RawTok(DeviceDesc)>>,
                                  <<IntTok(k)>> >>)
\* a device record whose alt-setting count is an octet string
DevD(k) == Block(SequenceType, << <<OctTok(<<k>>)>>, <<RawTok(DeviceDesc)>>,
                                  <<RawTok(ConfigDesc(1))>>, <<OctTok(<<1>>)>>,
                                  <<RawTok(InterfaceDesc(1))>>,
                                  <<RawTok(EndpointDesc)>>, <<IntTok(k)>> >>)
\* a device record whose device descriptor is one byte longer than
\* struct usb_device_descriptor
DevE(k) == Block(SequenceType, << <<OctTok(<<k>>)>>,
                                  <<RawTok(DeviceDesc \o <<7>>)>>,
                                  <<RawTok(ConfigDesc(0))>>, <<IntTok(k)>> >>)
\* a device record with a configuration descriptor longer than struct
\* usb_config_descriptor, a short alt-setting and an empty endpoint field
DevF(k) == Block(SequenceType, << <<OctTok(<<k>>)>>, <<RawTok(DeviceDesc)>>,
                                  <<RawTok(ConfigDesc(1) \o [i \in 1..32 |-> 0])>>,
                                  <<IntTok(1)>>, <<RawTok(<<9, 4, 0, 0, 1>>)>>,
                                  <<RawTok(<<>>)>>, <<IntTok(k)>> >>)
\* a device record without a configuration descriptor whose device
\* number is the one-byte integer 255
DevG(k) == Block(SequenceType, << <<OctTok(<<k>>)>>, <<RawTok(DeviceDesc)>>,
                                  <<IntTok(255)>> >>)
BusRec(k, devs) == Block(StructureType,
                         << <<OctTok(<<k>>)>>, <<IntTok(k)>> >> \o devs)
\* a top-level element that is no bus record
Junk == <<IntTok(9)>>

\* the top-level elements that follow the change count
Elements ==
    { <<>>,
      <<BusRec(1, <<>>)>>,
      <<BusRec(1, <<DevA(1)>>)>>,
      <<BusRec(1, <<DevB(1)>>)>>,
      <<BusRec(1, <<DevA(1), DevB(2)>>)>>,
      <<BusRec(1, <<DevA(1)>>), BusRec(2, <<DevA(1)>>)>>,
      <<BusRec(1, <<DevA(1)>>), Junk, BusRec(2, <<>>)>>,
      <<Junk, BusRec(1, <<DevA(1)>>)>>,
      <<Junk>> }

\* payloads whose device records lack a field or carry it under another tag
FieldElements ==
    { <<BusRec(1, <<DevC(1)>>)>>,
      <<BusRec(1, <<DevD(1)>>)>>,
      <<BusRec(1, <<DevE(1)>>)>>,
      <<BusRec(1, <<DevF(1)>>)>>,
      <<BusRec(1, <<DevG(1)>>)>> }

EnumBodies ==
    { <<IntTok(n)>> \o Concat(e) : n \in {0, 2}, e \in Elements }
    \cup { <<IntTok(2)>> \o Concat(e) : e \in FieldElements }

\* the top-level elements of a body after its first field, as positions
RECURSIVE TopLevel(_, _)
TopLevel(body, i) == IF i > Len(body) THEN <<>>
                     ELSE <<i>> \o TopLevel(body, i + 1 + body[i].skip)

\* the bus records of a payload (positions of the top-level structures)
BusRecords(body) ==
    SelectSeq(TopLevel(body, 2), LAMBDA i : body[i].type = StructureType)

\* the device records of the bus record at position i
DeviceRecords(body, i) ==
    LET inner == SubSeq(body, i + 1, i + body[i].skip)
    IN  SelectSeq(TopLevel(inner, 1), LAMBDA j : inner[j].type = SequenceType)

\* ------------------------------------------------------------- the heap
EmptyMap == [a \in {} |-> NULL]

ZeroBytes(n) == [i \in 1..n |-> 0]

\* memcpy(dst, src, n) into a byte array: the first n bytes are replaced
CopyBytes(dst, src, n) ==
    [i \in 1..Len(dst) |-> IF i <= n /\ i <= Len(src) THEN src[i] ELSE dst[i]]

\* memset(nbus, 0, sizeof(struct usb_bus))
ZeroBus == [dirname |-> <<>>, location |-> 0, next |-> NULL, prev |-> NULL,
            devices |-> NULL]
\* memset(dev->next, 0, sizeof(struct usb_device)); written is the number
\* of bytes the last memcpy to &dev->descriptor wrote (line 295)
ZeroDev == [filename |-> <<>>, descriptor |-> ZeroBytes(SizeDeviceDescriptor),
            written |-> 0,
            config |-> NULL, devnum |-> 0, next |-> NULL, prev |-> NULL,
            bus |-> NULL]

InitMem == [bus |-> EmptyMap, dev |-> EmptyMap, cfg |-> EmptyMap,
            ifa |-> EmptyMap, alt |-> EmptyMap, epa |-> EmptyMap,
            hdl |-> EmptyMap, live |-> {}, freed |-> {}, brk |-> 1]

\* ----------------------------------------------- usb_find_devices: the walk
\* The walk works on a record s: the heap (bus, dev, cfg, ifa, alt, epa,
\* live, freed, brk), the packet body and cursor (body, it), the locals of
\* usb_find_devices (rbus, vbus_next, dv, vdev_next) and what the run did
\* (fault: the process faulted, ub: storage was used after its release,
\* nalloc/nfree: bus and device nodes obtained from malloc / given to free).
\* ubmode says what a use of released storage does in this run: "fault"
\* stops the process, "stale" finds the old contents still in place.
\* garbage is the value malloc'ed storage holds before it is written.

\* an access through pointer a to storage of the given map
Touch(s, map, a) ==
    IF a \notin DOMAIN map THEN [s EXCEPT !.fault = TRUE]
    ELSE IF a \in s.live THEN s
    ELSE [s EXCEPT !.ub = TRUE, !.fault = @ \/ (s.ubmode = "fault")]

\* free(a)
Free(s, a) ==
    IF a \in s.live
    THEN [s EXCEPT !.live = @ \ {a}, !.freed = @ \cup {a}]
    ELSE [s EXCEPT !.ub = TRUE, !.fault = @ \/ (s.ubmode = "fault")]

BusNextOf(s, p) == IF p = VBUS THEN s.vbus_next ELSE s.bus[p].next
SetBusNext(s, p, v) == IF p = VBUS THEN [s EXCEPT !.vbus_next = v]
                       ELSE [s EXCEPT !.bus[p].next = v]
DevNextOf(s, p) == IF p = VDEV THEN s.vdev_next ELSE s.dev[p].next
SetDevNext(s, p, v) == IF p = VDEV THEN [s EXCEPT !.vdev_next = v]
                       ELSE [s EXCEPT !.dev[p].next = v]

\* lines 243-251: a new bus node is linked behind rbus and becomes rbus
AllocBus(s) ==
    LET a  == s.brk
        s1 == [s EXCEPT !.brk = a + 1, !.live = @ \cup {a},
                        !.nalloc = @ + 1,
                        !.bus = @ @@ (a :> [ZeroBus EXCEPT !.prev = s.rbus])]
    IN  [SetBusNext(s1, s.rbus, a) EXCEPT !.rbus = a]

\* lines 275-283: a new device node is linked behind dv
AllocDev(s) ==
    LET a  == s.brk
        nd == [ZeroDev EXCEPT !.bus = s.rbus,
                              !.prev = IF s.dv # VDEV THEN s.dv ELSE NULL]
        s1 == [s EXCEPT !.brk = a + 1, !.live = @ \cup {a},
                        !.nalloc = @ + 1,
                        !.dev = @ @@ (a :> nd)]
        \* line 281: the first device of the bus
        First(x) == IF x.bus[x.rbus].devices = NULL
                    THEN [x EXCEPT !.bus[x.rbus].devices = a]
                    ELSE x
    IN  First(SetDevNext(s1, s.dv, a))

\* the byte at offset off of a structure filled from src by a copy of n
\* bytes into fresh malloc'ed storage
FieldByte(s, src, n, off) ==
    IF off < n /\ off < Len(src) THEN src[off + 1] ELSE s.garbage

\* lines 355-367: the endpoint descriptors of one alt-setting
RECURSIVE LoadEndpoints(_, _, _)
LoadEndpoints(s, n, acc) ==
    IF n = 0 THEN [s |-> s, arr |-> acc]
    ELSE LoadEndpoints([s EXCEPT !.it = iter_next(s.body, s.it)], n - 1,
                       Append(acc, [copied |-> Min(SizeEndpointDescriptor,
                                                   Len(s.it.val)),
                                    at |-> s.it.pos]))

\* lines 338-372: the alt-settings of one interface
RECURSIVE LoadAltsettings(_, _, _)
LoadAltsettings(s, n, acc) ==
    IF n = 0 THEN [s |-> s, arr |-> acc]
    ELSE LET szlen == Min(SizeInterfaceDescriptor, Len(s.it.val))
             nep == FieldByte(s, s.it.val, szlen, OffNumEndpoints)
             a  == s.brk
             \* lines 346-353: the descriptor is copied, the array allocated
             s2 == [s EXCEPT !.it = iter_next(s.body, s.it),
                             !.brk = IF nep > 0 THEN a + 1 ELSE a,
                             !.live = IF nep > 0 THEN @ \cup {a} ELSE @]
             Store(r) == IF nep > 0
                         THEN [r.s EXCEPT !.epa = @ @@ (a :> r.arr)]
                         ELSE r.s
             as == [bNumEndpoints |-> nep, copied |-> szlen, at |-> s.it.pos,
                    endpoint |-> IF nep > 0 THEN a ELSE WILD]
         IN  LoadAltsettings(Store(LoadEndpoints(s2, nep, <<>>)), n - 1,
                             Append(acc, as))

\* lines 325-373: interface i of the configuration block c
RECURSIVE LoadInterfaces(_, _, _)
LoadInterfaces(s, c, i) ==
    IF s.fault \/ i > s.cfg[c].bNumInterfaces THEN s
    ELSE LET ia   == s.cfg[c].interface
             nalt == as_int(s.it.val)
             a    == s.brk
             \* lines 329-336: the count is read, the array allocated
             Begin(x) == [x EXCEPT !.it = iter_next(x.body, x.it),
                                   !.brk = IF nalt > 0 THEN a + 1 ELSE a,
                                   !.live = IF nalt > 0 THEN @ \cup {a} ELSE @]
             \* j is unsigned: a negative count runs the loop through the
             \* altsetting pointer as it is, unassigned or of an earlier call
             Alts(x) == IF nalt >= 0 THEN LoadAltsettings(x, nalt, <<>>)
                        ELSE [s |-> [x EXCEPT !.fault = TRUE], arr |-> <<>>]
             Store(r) ==
                 [(IF nalt > 0 THEN [r.s EXCEPT !.alt = @ @@ (a :> r.arr)]
                   ELSE r.s)
                    EXCEPT !.ifa[ia][i] =
                      [num_altsetting |-> nalt,
                       altsetting |-> IF nalt > 0 THEN a ELSE @.altsetting]]
             Rest(x) == IF x.fault THEN x
                        ELSE LoadInterfaces(Store(Alts(Begin(x))), c, i + 1)
         IN  Rest(Touch(s, s.ifa, ia))

\* lines 299-321: the configuration block of device d
ReadConfig(s, d) ==
    IF s.it.type # RawType THEN s
    ELSE LET szlen == Min(SizeConfigDescriptor, Len(s.it.val))
             nif   == FieldByte(s, s.it.val, szlen, OffNumInterfaces)
             c     == s.brk
             ia    == c + 1
         IN  [s EXCEPT !.brk = IF nif > 0 THEN c + 2 ELSE c + 1,
                       !.live = @ \cup (IF nif > 0 THEN {c, ia} ELSE {c}),
                       !.cfg = @ @@ (c :> [bNumInterfaces |-> nif,
                                           copied |-> szlen,
                                           at |-> s.it.pos,
                                           interface |-> IF nif > 0 THEN ia ELSE NULL]),
                       !.ifa = IF nif > 0
                               THEN @ @@ (ia :>
                                      [i \in 1..nif |-> [num_altsetting |-> s.garbage,
                                                         altsetting |-> WILD]])
                               ELSE @,
                       !.dev[d].config = c,
                       !.it = iter_next(s.body, s.it)]

\* lines 287-379: the fields of the device record into node d
ReadDevice(s, d) ==
    LET Filename(x) ==
            IF x.it.type = OctetType
            THEN [x EXCEPT !.dev[d].filename = as_string(x.it.val),
                           !.it = iter_next(x.body, x.it)]
            ELSE x
        \* line 295 copies it.len bytes: the bytes behind the descriptor
        \* are written over when the field is longer than the structure
        Descriptor(x) ==
            IF x.it.type = RawType
            THEN [x EXCEPT !.dev[d].descriptor =
                               CopyBytes(@, x.it.val, Len(x.it.val)),
                           !.dev[d].written = Len(x.it.val),
                           !.ub = @ \/ Len(x.it.val) > SizeDeviceDescriptor,
                           !.fault = @ \/ (/\ Len(x.it.val) > SizeDeviceDescriptor
                                           /\ x.ubmode = "fault"),
                           !.it = iter_next(x.body, x.it)]
            ELSE x
        Cfg(x) == IF x.fault THEN x ELSE ReadConfig(x, d)
        Interfaces(x) == IF x.fault THEN x
                         ELSE LoadInterfaces(x, x.dev[d].config, 1)
        Config(x) == Interfaces(Touch(x, x.cfg, x.dev[d].config))
        Devnum(x) ==
            IF x.fault THEN x
            ELSE IF x.it.type = IntegerType
            THEN [x EXCEPT !.dev[d].devnum = as_int(x.it.val),
                           !.it = iter_next(x.body, x.it)]
            ELSE x
    IN  Devnum(Config(Cfg(Descriptor(Filename(s)))))

\* lines 271-382: the device records of the current bus record
RECURSIVE DevLoop(_)
DevLoop(s) ==
    IF s.fault \/ s.it.type # SequenceType THEN s
    ELSE LET Node(x) == IF DevNextOf(x, x.dv) = NULL THEN AllocDev(x) ELSE x
             Step(x) == Touch([x EXCEPT !.dv = DevNextOf(x, x.dv)], x.dev,
                              DevNextOf(x, x.dv))
             Read(x) == IF x.fault THEN x ELSE DevLoop(ReadDevice(x, x.dv))
         IN  Read(Step(Node([s EXCEPT !.it = iter_enter(s.body, s.it)])))

\* lines 384-390: the devices behind dv are unlinked and freed
RECURSIVE FreeUnused(_)
FreeUnused(s) ==
    IF s.fault \/ DevNextOf(s, s.dv) = NULL THEN s
    ELSE LET ddev == DevNextOf(s, s.dv)
             Unlink(x) ==
                 IF x.fault THEN x
                 ELSE FreeUnused([Free(SetDevNext(x, s.dv, s.dev[ddev].next), ddev)
                                    EXCEPT !.nfree = @ + 1])
         IN  Unlink(Touch(s, s.dev, ddev))

\* lines 240-390: one bus record
SyncBus(s) ==
    LET Node(x) == IF BusNextOf(x, x.rbus) = NULL THEN AllocBus(x)
                   ELSE [x EXCEPT !.rbus = BusNextOf(x, x.rbus)]
        Dirname(x) ==
            IF x.it.type = OctetType
            THEN [x EXCEPT !.bus[x.rbus].dirname = as_string(x.it.val),
                           !.it = iter_next(x.body, x.it)]
            ELSE x
        Location(x) ==
            IF x.it.type = IntegerType
            THEN [x EXCEPT !.bus[x.rbus].location = as_int(x.it.val),
                           !.it = iter_next(x.body, x.it)]
            ELSE x
        Devices(x) == [x EXCEPT !.vdev_next = x.bus[x.rbus].devices,
                                !.dv = VDEV]
    IN  FreeUnused(DevLoop(Devices(Location(Dirname(Node(
            [s EXCEPT !.it = iter_enter(s.body, s.it)]))))))

\* lines 236-397: the top-level elements behind the change count
RECURSIVE BusLoop(_)
BusLoop(s) ==
    IF s.fault \/ iter_end(s.body, s.it) THEN s
    ELSE LET Element(x) ==
                 IF x.it.type = StructureType
                 THEN BusLoop(SyncBus(x))
                 ELSE BusLoop([x EXCEPT !.it = iter_next(x.body, x.it)])
         IN  Element([s EXCEPT !.it = iter_next(s.body, s.it)])

\* surplus busses left linked
TrimBussesNone(s) == s

\* lines 399-404: the busses behind rbus are unlinked
RECURSIVE TrimBusses(_)
TrimBusses(s) ==
    IF s.fault \/ BusNextOf(s, s.rbus) = NULL THEN s
    ELSE TrimBusses(SetBusNext(s, s.rbus, s.bus[BusNextOf(s, s.rbus)].next))

\* lines 222-412: the received response is applied to the cached tree
SyncTree(mem, rbus0, body, ubmode, garbage) ==
    LET it0 == pkt_begin(body)
        s0  == [bus |-> mem.bus, dev |-> mem.dev, cfg |-> mem.cfg,
                ifa |-> mem.ifa, alt |-> mem.alt, epa |-> mem.epa,
                live |-> mem.live, freed |-> mem.freed, brk |-> mem.brk,
                body |-> body, it |-> it0,
                rbus |-> VBUS, vbus_next |-> rbus0,
                dv |-> VDEV, vdev_next |-> NULL,
                fault |-> FALSE, ub |-> FALSE, ubmode |-> ubmode,
                garbage |-> garbage, nalloc |-> 0, nfree |-> 0]
    IN  TrimBusses(BusLoop(s0))

\* ------------------------------------------------- process exit clean-up
\* lines 1062-1066: the endpoint arrays of the alt-settings of one interface
RECURSIVE DestroyAltsettings(_, _, _)
DestroyAltsettings(s, arr, j) ==
    IF s.fault \/ j > Len(arr) THEN s
    ELSE IF arr[j].endpoint = NULL THEN DestroyAltsettings(s, arr, j + 1)
    ELSE DestroyAltsettings(Free(s, arr[j].endpoint), arr, j + 1)

\* lines 1047-1070: the alt-setting arrays of the interfaces of block c
RECURSIVE DestroyInterfaces(_, _, _)
DestroyInterfaces(s, c, i) ==
    IF s.fault \/ i > s.cfg[c].bNumInterfaces THEN s
    ELSE LET ifp == s.ifa[s.cfg[c].interface][i]
             Alts(x) == IF x.fault THEN x
                        ELSE DestroyAltsettings(x, s.alt[ifp.altsetting], 1)
         IN  IF ifp.altsetting = NULL THEN DestroyInterfaces(s, c, i + 1)
             ELSE DestroyInterfaces(
                      Free(Alts(Touch(s, s.alt, ifp.altsetting)), ifp.altsetting),
                      c, i + 1)

\* lines 1034-1076: dev->config[0 .. bNumConfigurations-1]; the block holds
\* one configuration, an index past it reads outside the block
usb_destroy_configuration(s, d) ==
    LET c     == s.dev[d].config
        nconf == s.dev[d].descriptor[OffNumConfigurations + 1]
        Array(x) == IF x.fault THEN x
                    ELSE Free(DestroyInterfaces(x, c, 1), x.cfg[c].interface)
        Interfaces(x) ==
            IF x.fault \/ nconf = 0 \/ x.cfg[c].interface = NULL THEN x
            ELSE Array(Touch(x, x.ifa, x.cfg[c].interface))
        Others(x) ==
            IF nconf > 1
            THEN [x EXCEPT !.ub = TRUE, !.fault = @ \/ (x.ubmode = "fault")]
            ELSE x
        Config(x) == IF x.fault THEN x ELSE Free(x, c)
    IN  IF c = NULL THEN s
        ELSE Config(Others(Interfaces(Touch(s, s.cfg, c))))

\* lines 80-89: the devices of bus cur
RECURSIVE FreeBusDevices(_, _)
FreeBusDevices(s, cur) ==
    IF s.fault \/ s.bus[cur].devices = NULL THEN s
    ELSE LET d  == s.bus[cur].devices
             Drop(x) == IF x.fault THEN x
                        ELSE FreeBusDevices(Free(x, d), cur)
             Config(x) ==
                 IF x.fault THEN x
                 ELSE Drop(usb_destroy_configuration(
                              [x EXCEPT !.bus[cur].devices = s.dev[d].next], d))
         IN  Config(Touch(s, s.dev, d))

\* lines 72-93: every bus from __remote_bus on
RECURSIVE FreeBusses(_)
FreeBusses(s) ==
    IF s.fault \/ s.root = NULL THEN s
    ELSE LET cur == s.root
             s1  == [s EXCEPT !.root = s.bus[cur].next]
         IN  FreeBusses(Free(FreeBusDevices(s1, cur), cur))

\* lines 64-94: deinit_hostfd, run by exit()
deinit_hostfd(mem, root, ubmode) ==
    FreeBusses([bus |-> mem.bus, dev |-> mem.dev, cfg |-> mem.cfg,
                ifa |-> mem.ifa, alt |-> mem.alt, epa |-> mem.epa,
                live |-> mem.live, freed |-> mem.freed, brk |-> mem.brk,
                root |-> root, fault |-> FALSE, ub |-> FALSE,
                ubmode |-> ubmode])

\* the heap a walk leaves behind
MemOf(s, hdl) == [bus |-> s.bus, dev |-> s.dev, cfg |-> s.cfg, ifa |-> s.ifa,
                  alt |-> s.alt, epa |-> s.epa, hdl |-> hdl,
                  live |-> s.live, freed |-> s.freed, brk |-> s.brk]

\* ------------------------------------------------------------- responses
\* the opcode of a response that does not echo the request
OtherOp(op) == IF op = UsbReset THEN UsbOpen ELSE UsbReset

\* bodies the remote side may answer a one-shot request with
ReplyBodies ==
    { <<>>,
      <<IntTok(0)>>,
      <<IntTok(255)>>,
      <<IntTok(128)>>,
      <<IntTok(0), IntTok(7)>>,
      <<IntTok(255), IntTok(7)>>,
      <<Int2Tok(255, 0), Int2Tok(254, 255)>>,
      <<IntTok(2), OctTok(<<5, 6>>)>>,
      <<IntTok(2), OctTok(<<5>>)>>,
      <<IntTok(1), RawTok(<<5>>)>>,
      <<OctTok(<<5, 6>>)>> }

\* the bodies that differ in their first field, all that the operations
\* reading one result field look at
ResultBodies ==
    { <<>>,
      <<IntTok(0)>>,
      <<IntTok(255)>>,
      <<IntTok(128)>>,
      <<Int2Tok(255, 0), Int2Tok(254, 255)>>,
      <<OctTok(<<5, 6>>)>> }

\* bodies the remote side may answer usb_find_busses with
CountBodies == { <<>>, <<IntTok(3)>>, <<OctTok(<<5>>)>> }

\* bodies the remote side may answer a control transfer of the string
\* helpers with: a failure, a descriptor shorter than a language table, and
\* results on both sides of the 4 of line 1004
StringBodies ==
    { <<>>,
      <<IntTok(255)>>,
      <<IntTok(2), OctTok(<<2, 3>>)>>,
      <<IntTok(3), OctTok(<<4, 3, 9>>)>>,
      <<IntTok(4), OctTok(<<4, 3, 9, 4>>)>>,
      <<Int2Tok(255, 0), Int2Tok(254, 255)>> }

\* A behaviour is a run of concurrent callers of every operation over a
\* small device tree ("calls"), a run of enumerations by one caller over
\* every payload ("tree"), or a run of concurrent callers of the string
\* helpers and of the operations that give them a handle ("strings").
CallsEnumBodies ==
    { <<IntTok(2)>>,
      <<IntTok(2)>> \o BusRec(1, <<DevA(1)>>),
      <<OctTok(<<5>>)>> \o BusRec(1, <<>>) }

\* the responses of a "strings" run to the operations that give the
\* helpers a handle: a tree with one device or none, an open that succeeds
\* or fails
StringsEnumBodies ==
    { <<IntTok(2)>>, <<IntTok(2)>> \o BusRec(1, <<DevA(1)>>) }
StringsOpenBodies == { <<IntTok(255)>>, <<IntTok(0), IntTok(7)>> }

BodiesFor(sc, op) ==
                 IF sc = "strings" /\ op = UsbFindDevices
                 THEN StringsEnumBodies
                 ELSE IF sc = "strings" /\ op = UsbOpen
                 THEN StringsOpenBodies
                 ELSE IF op = UsbFindDevices
                 THEN (IF sc = "tree" THEN EnumBodies ELSE CallsEnumBodies)
                 ELSE IF op = UsbFindBusses THEN CountBodies
                 ELSE IF op = UsbInit THEN {<<>>}
                 ELSE IF op \in PlainOps \cup {UsbClose} THEN ResultBodies
                 ELSE IF sc = "strings" /\ op = UsbControlMsg THEN StringBodies
                 ELSE ReplyBodies

NoPkt == [ok |-> FALSE, op |-> "", body |-> <<>>, seq |-> 0]

\* ------------------------------------------------------------- the state
VARIABLES
    mutex,          \* __mutex: the thread holding it, or NoThread
    remote_fd,      \* __remote_fd
    exitf_hooked,   \* init_hostfd: static exitf_hooked
    remote_bus,     \* __remote_bus
    usb_busses,     \* libusb's usb_busses
    mem,            \* the heap: nodes, handles, live and released addresses
    th,             \* per thread: position in its call and the call's locals
    reqs,           \* requests written to the channel, not yet answered
    rsps,           \* responses written by the remote side, not yet read
    shm,            \* the descriptor published in the shared segment
    peer,           \* descriptors whose peer is connected
    proc,           \* "running", "exited" (exit(1)), "faulted" or
                    \* "terminated" (ended by the application)
    ncalls,         \* calls started so far
    nsent,          \* requests sent so far
    synced,         \* <<body>> of the last enumeration applied, or <<>>
    scen            \* the kind of run: "calls", "tree" or "strings"

vars == <<mutex, remote_fd, exitf_hooked, remote_bus, usb_busses, mem, th,
          reqs, rsps, shm, peer, proc, ncalls, nsent, synced,
          scen>>

\* the locals of a thread that is in no call
Idle == [pc |-> "idle", op |-> "", h |-> NULL, arg |-> 0, size |-> 0,
         buf |-> <<>>, fd |-> NoFd, rx |-> NoPkt, res |-> 0, udev |-> NULL,
         seq |-> 0, sends |-> 0, recvs |-> 0, nalloc |-> 0, nfree |-> 0,
         same |-> FALSE,
         outer |-> "",   \* the string helper that called usb_control_msg
         stage |-> 0]    \* which of its control transfers this is

InitAny ==
    /\ mutex = NoThread
    /\ remote_fd = NoFd
    /\ exitf_hooked = FALSE
    /\ remote_bus = NULL
    /\ usb_busses = NULL
    /\ mem = InitMem
    /\ th = [t \in Threads |-> Idle]
    /\ reqs = <<>>
    /\ rsps = <<>>
    /\ shm = 3
    /\ peer = {3}
    /\ proc = "running"
    /\ ncalls = 0
    /\ nsent = 0
    /\ synced = <<>>

Init == InitAny /\ scen = "calls"

InitTree == InitAny /\ scen = "tree"

InitStrings == InitAny /\ scen = "strings"

\* ------------------------------------------------------ decoding a reply
\* whether the operation compares the leading opcode of the response with
\* its own (lines 190, 222, 809 do not)
ChecksOpcode(op) == op \notin {UsbBulkRead, UsbFindBusses, UsbFindDevices}

\* the condition under which an operation decodes the response
Accepts(op, rx) == rx.ok /\ (ChecksOpcode(op) => rx.op = op)

\* a decoder that reports every negative result as -1
PrimaryClamped(op, rx) ==
    LET it0 == pkt_begin(rx.body)
    IN  IF Accepts(op, rx) /\ it0.type = IntegerType /\ as_int(it0.val) >= 0
        THEN [res |-> as_int(it0.val), it |-> iter_next(rx.body, it0)]
        ELSE [res |-> 0 - 1,
              it |-> IF Accepts(op, rx) /\ it0.type = IntegerType
                     THEN iter_next(rx.body, it0) ELSE it0]

\* res and the cursor after the first field of an accepted response
Primary(op, rx) ==
    LET it0 == pkt_begin(rx.body)
    IN  IF Accepts(op, rx) /\ it0.type = IntegerType
        THEN [res |-> as_int(it0.val), it |-> iter_next(rx.body, it0)]
        ELSE [res |-> 0 - 1, it |-> it0]

\* the integer of the second field (usb_open: devfd, set calls: the echo)
Second(op, rx, default) ==
    LET p == Primary(op, rx)
    IN  IF Accepts(op, rx) /\ p.it.type = IntegerType
        THEN as_int(p.it.val) ELSE default

\* the number of bytes the read operations copy to the caller (minlen)
CopyLen(op, rx, size) ==
    LET p == Primary(op, rx)
    IN  IF Accepts(op, rx) /\ p.it.type = OctetType /\ p.res > 0
        THEN Min(p.res, size) ELSE 0

\* memcpy(bytes, it.val, minlen): bytes past the wire field come from
\* whatever follows it in the packet buffer
ReadCopy(op, rx, size, buf, garbage) ==
    LET p == Primary(op, rx)
        n == CopyLen(op, rx, size)
    IN  [i \in 1..size |->
            IF i <= n
            THEN IF i <= Len(p.it.val) THEN p.it.val[i] ELSE garbage
            ELSE buf[i]]

\* usb_find_busses, lines 187-195
FindBussesRes(rx) ==
    LET it0 == pkt_begin(rx.body)
    IN  IF Accepts(UsbFindBusses, rx) /\ rx.body # <<>>
           /\ it0.type = IntegerType
        THEN ToInt32(as_uint(it0.val)) ELSE 0

\* a result that counts the bus records of the payload
FindDevicesResBusses(rx) == Len(BusRecords(rx.body))

\* usb_find_devices, lines 219-228
FindDevicesRes(rx) ==
    LET it0 == pkt_begin(rx.body)
    IN  IF Accepts(UsbFindDevices, rx) /\ it0.type = IntegerType
        THEN ToInt32(as_uint(it0.val)) ELSE 0

\* usb_open, lines 461-469: the handle allocated when res >= 0
NewHandle(devfd, dev, bus) ==
    [fd |-> devfd, device |-> dev, bus |-> bus, config |-> Unset,
     interface |-> Unset, altsetting |-> Unset]

\* a handle only for a positive result
OpenSucceedsPositive(res) == res > 0

\* whether usb_open allocates a handle
OpenSucceeds(res) == res >= 0

\* ------------------------------------------------------------ transport
\* init_hostfd, lines 109-138: the descriptor after the lookup and the probe
HostFd(fd, seg, alive) ==
    LET fd1 == IF fd = NoFd THEN seg ELSE fd
    IN  IF fd1 \in alive THEN fd1 ELSE NoFd

\* whether the operation reads a response after its request (usb_init,
\* lines 157-172, does not)
AwaitsReply(op) == op # UsbInit

\* the token an operation on a handle puts into its request: dev->fd, read
\* by pkt_append before pkt_send (usb_close: line 486)
RequestToken(op, m, h) == IF op \in HandleOps THEN m.hdl[h].fd ELSE 0

\* a usb_close that keeps the storage of its handle
FreesHandleNever(op) == FALSE

\* whether the operation frees its handle after pkt_send (usb_close,
\* line 490)
FreesHandle(op) == op = UsbClose

\* a lock that admits a caller while another holds it
MutexFreeAlways(m) == TRUE

\* call_lock: pthread_mutex_lock returns when the mutex is free
MutexFree(m) == m = NoThread

\* values of storage that was never written
Garbage == {0, 1}
UbModes == {"fault", "stale"}

Running == proc = "running"

\* the devices a caller can pass to usb_open, the handles to the others
Targets(op, t) ==
    IF op = UsbOpen THEN DOMAIN mem.dev \cap mem.live
    ELSE IF op \in HandleOps \cup StringOps
    THEN (DOMAIN mem.hdl \cap mem.live) \ {th[u].h : u \in Threads \ {t}}
    ELSE {NULL}

\* the callers and the operations of a run
Callers(sc) == IF sc = "tree" THEN {1} ELSE Threads
OpsOf(sc) == IF sc = "tree" THEN {UsbFindDevices}
             ELSE IF sc = "strings"
             THEN {UsbFindDevices, UsbOpen} \cup StringOps
             ELSE AllOps
CallBound(sc) == IF sc = "tree" THEN MaxSyncs
                 ELSE IF sc = "strings" THEN MaxCalls + 1
                 ELSE MaxCalls

\* the buffer lengths a caller passes; usb_get_string_simple passes its
\* tbuf to usb_get_string (lines 1000, 1009)
Sizes(op) == IF op = UsbGetStringSimple THEN {SizeTbuf}
             ELSE IF op \in ReadOps \cup {UsbGetString} THEN {0, 1, 2}
             ELSE {0}

\* the operation whose request a public operation sends: the string helpers
\* call usb_control_msg (lines 985, 1000, 1009)
Transfer(op) == IF op \in StringOps THEN UsbControlMsg ELSE op

\* a helper that repeats its transfer after any result that is no error
SecondTransferUnchecked(outer, stage, ret) ==
    outer = UsbGetStringSimple /\ stage = 1 /\ ret >= 0

\* usb_get_string_simple, lines 1000-1009: whether the helper goes on to its
\* second control transfer after the first returned ret
SecondTransfer(outer, stage, ret) ==
    outer = UsbGetStringSimple /\ stage = 1 /\ ~(ret < 0) /\ ~(ret < 4)

\* -------------------------------------------------------------- actions
\* a thread enters one of the public operations; each begins with call_lock()
Call(t) ==
    /\ Running /\ th[t].pc = "idle" /\ t \in Callers(scen)
    /\ ncalls < CallBound(scen)
    /\ th' = [th EXCEPT ![t].pc = "lock"]
    /\ ncalls' = ncalls + 1
    /\ UNCHANGED <<mutex, remote_fd, exitf_hooked, remote_bus, usb_busses,
                   mem, reqs, rsps, shm, peer, proc, nsent,
                   synced, scen>>

\* call_lock(), lines 43-45.  The operation and its arguments are fixed here:
\* a caller blocked in call_lock() has not used them yet.  A string helper
\* enters the call_lock() of its usb_control_msg (line 750); the second
\* transfer of usb_get_string_simple (line 1009) uses the same handle and
\* the tbuf the first one filled.
call_lock(t) ==
    /\ Running /\ th[t].pc = "lock"
    /\ MutexFree(mutex)
    /\ mutex' = t
    /\ IF th[t].outer = ""
       THEN \E op \in OpsOf(scen) :
              \E h \in Targets(op, t), size \in Sizes(op) :
                th' = [th EXCEPT ![t] =
                         [Idle EXCEPT !.pc = "hostfd", !.op = Transfer(op),
                                      !.h = h, !.arg = 1,
                                      !.size = size,
                                      !.buf = ZeroBytes(size),
                                      !.outer = IF op \in StringOps THEN op
                                                ELSE "",
                                      !.stage = IF op \in StringOps THEN 1
                                                ELSE 0]]
       ELSE th' = [th EXCEPT ![t].pc = "hostfd", ![t].stage = 2]
    /\ UNCHANGED <<remote_fd, exitf_hooked, remote_bus, usb_busses, mem, reqs,
                   rsps, shm, peer, proc, ncalls, nsent, synced, scen>>

\* init_hostfd(), lines 100-146; exit(1) runs deinit_hostfd and ends the
\* process with the caller still inside its operation
init_hostfd(t) ==
    /\ Running /\ th[t].pc = "hostfd"
    /\ exitf_hooked' = TRUE
    /\ LET fd == HostFd(remote_fd, shm, peer)
       IN  /\ remote_fd' = fd
           /\ IF fd = NoFd
              THEN \E ubmode \in UbModes :
                     \E s \in {deinit_hostfd(mem, remote_bus, ubmode)} :
                         /\ mem' = MemOf(s, mem.hdl)
                         /\ remote_bus' = s.root
                         /\ usb_busses' = NULL
                         /\ proc' = "exited"
                         /\ th' = [th EXCEPT ![t].pc = "exit"]
              ELSE /\ th' = [th EXCEPT ![t].pc = "send", ![t].fd = fd]
                   /\ UNCHANGED <<mem, remote_bus, usb_busses, proc>>
    /\ UNCHANGED <<mutex, reqs, rsps, shm, peer, ncalls, nsent,
                   synced, scen>>

\* pkt_send(); usb_init goes on to call_release, usb_close frees the handle
\* (line 490), every other operation goes on to pkt_recv
pkt_send(t) ==
    /\ Running /\ th[t].pc = "send"
    /\ nsent' = nsent + 1
    /\ reqs' = Append(reqs, [op |-> th[t].op, seq |-> nsent + 1,
                             tok |-> RequestToken(th[t].op, mem, th[t].h)])
    /\ th' = [th EXCEPT ![t].pc = IF AwaitsReply(th[t].op) THEN "recv"
                                  ELSE "release",
                        ![t].seq = nsent + 1,
                        ![t].sends = @ + 1]
    /\ mem' = IF FreesHandle(th[t].op)
              THEN [mem EXCEPT !.live = @ \ {th[t].h},
                               !.freed = @ \cup {th[t].h}]
              ELSE mem
    /\ UNCHANGED <<mutex, remote_fd, exitf_hooked, remote_bus, usb_busses,
                   rsps, shm, peer, proc, ncalls, synced, scen>>

\* the remote side answers the oldest request; usb_init reads no response
\* (lines 157-172), so a remote side may answer UsbInit or not
RemoteAnswer ==
    /\ Running /\ reqs # <<>> /\ remote_fd \in peer
    /\ LET rq == Head(reqs)
           answer ==
               \E body \in BodiesFor(scen, rq.op), rop \in {rq.op, OtherOp(rq.op)} :
                   rsps' = Append(rsps, [ok |-> TRUE, op |-> rop,
                                         body |-> body, seq |-> rq.seq])
       IN  IF rq.op = UsbInit
           THEN rsps' = rsps \/ answer
           ELSE answer
    /\ reqs' = Tail(reqs)
    /\ UNCHANGED <<mutex, remote_fd, exitf_hooked, remote_bus, usb_busses,
                   mem, th, shm, peer, proc, ncalls, nsent, synced, scen>>

\* what the operation of thread t does with the result rx of pkt_recv
Deliver(t, rx, ubmode, garbage) ==
    LET c  == th[t]
        op == c.op
        p  == Primary(op, rx)
        c1 == [c EXCEPT !.pc = "release", !.rx = rx, !.recvs = @ + 1]
    IN  IF op = UsbFindDevices
        THEN IF rx.ok
             THEN \E s \in {SyncTree(mem, remote_bus, rx.body, ubmode, garbage)} :
                      /\ s.brk <= MaxAddr + 1
                      /\ mem' = MemOf(s, mem.hdl)
                      /\ IF s.fault
                         THEN /\ proc' = "faulted"
                              /\ th' = [th EXCEPT ![t] = [c1 EXCEPT !.pc = "fault"]]
                              /\ UNCHANGED <<remote_bus, usb_busses, synced>>
                         ELSE /\ proc' = proc
                              /\ remote_bus' = s.vbus_next
                              /\ usb_busses' = s.vbus_next
                              /\ synced' = <<rx.body>>
                              /\ th' = [th EXCEPT ![t] =
                                         [c1 EXCEPT !.res = FindDevicesRes(rx),
                                                    !.nalloc = s.nalloc,
                                                    !.nfree = s.nfree,
                                                    !.same = (synced = <<rx.body>>)]]
             ELSE /\ th' = [th EXCEPT ![t] = [c1 EXCEPT !.res = 0]]
                  /\ UNCHANGED <<mem, remote_bus, usb_busses, proc, synced>>
        ELSE IF op = UsbFindBusses
        THEN /\ th' = [th EXCEPT ![t] = [c1 EXCEPT !.res = FindBussesRes(rx)]]
             /\ UNCHANGED <<mem, remote_bus, usb_busses, proc, synced>>
        ELSE IF op = UsbOpen
        THEN /\ IF OpenSucceeds(p.res)
                THEN /\ mem.brk <= MaxAddr
                     /\ mem' = [mem EXCEPT
                           !.brk = @ + 1, !.live = @ \cup {mem.brk},
                           !.hdl = @ @@ (mem.brk :>
                               NewHandle(Second(op, rx, 0 - 1), c.h,
                                         mem.dev[c.h].bus))]
                     /\ th' = [th EXCEPT ![t] = [c1 EXCEPT !.res = p.res,
                                                           !.udev = mem.brk]]
                ELSE /\ mem' = mem
                     /\ th' = [th EXCEPT ![t] = [c1 EXCEPT !.res = p.res,
                                                           !.udev = NULL]]
             /\ UNCHANGED <<remote_bus, usb_busses, proc, synced>>
        ELSE IF op = UsbSetConfiguration
        THEN /\ mem' = [mem EXCEPT !.hdl[c.h].config = Second(op, rx, c.arg)]
             /\ th' = [th EXCEPT ![t] = [c1 EXCEPT !.res = p.res]]
             /\ UNCHANGED <<remote_bus, usb_busses, proc, synced>>
        ELSE IF op = UsbSetAltInterface
        THEN /\ mem' = [mem EXCEPT !.hdl[c.h].altsetting = Second(op, rx, c.arg)]
             /\ th' = [th EXCEPT ![t] = [c1 EXCEPT !.res = p.res]]
             /\ UNCHANGED <<remote_bus, usb_busses, proc, synced>>
        ELSE /\ th' = [th EXCEPT ![t] =
                        [c1 EXCEPT !.res = p.res,
                                   !.buf = ReadCopy(op, rx, c.size, c.buf, garbage)]]
             /\ UNCHANGED <<mem, remote_bus, usb_busses, proc, synced>>

\* pkt_recv() and the decoding that follows it, up to call_release.  The
\* receive returns a response of the channel (ok) or fails on it; it also
\* fails when the peer is gone.
pkt_recv(t) ==
    /\ Running /\ th[t].pc = "recv"
    /\ \E ok \in BOOLEAN, ubmode \in UbModes, garbage \in Garbage :
         /\ rsps = <<>> => (~ok /\ th[t].fd \notin peer)
         /\ Deliver(t, IF rsps # <<>> THEN [Head(rsps) EXCEPT !.ok = ok]
                       ELSE NoPkt, ubmode, garbage)
    /\ rsps' = IF rsps # <<>> THEN Tail(rsps) ELSE rsps
    /\ UNCHANGED <<mutex, remote_fd, exitf_hooked, reqs, shm, peer,
                   ncalls, nsent, scen>>

\* call_release(), lines 47-49, and the return to the caller.  A
\* usb_control_msg called by usb_get_string_simple returns into the helper,
\* which returns (lines 1001-1005, 1010-1031) or goes on to the call_lock()
\* of its second transfer (line 1009); the conversion of the string at
\* lines 1013-1031 reads and writes only the caller's buffers.
call_release(t) ==
    /\ Running /\ th[t].pc = "release"
    /\ mutex' = NoThread
    /\ th' = [th EXCEPT ![t] =
                IF SecondTransfer(th[t].outer, th[t].stage, th[t].res)
                THEN [Idle EXCEPT !.pc = "lock", !.op = th[t].op,
                                  !.h = th[t].h, !.arg = th[t].arg,
                                  !.size = th[t].size, !.buf = th[t].buf,
                                  !.outer = th[t].outer,
                                  !.stage = th[t].stage]
                ELSE Idle]
    /\ UNCHANGED <<remote_fd, exitf_hooked, remote_bus, usb_busses, mem, reqs,
                   rsps, shm, peer, proc, ncalls, nsent, synced, scen>>

\* the peer of a descriptor goes away
PeerLost ==
    /\ Running
    /\ \E f \in peer : peer' = peer \ {f}
    /\ UNCHANGED <<mutex, remote_fd, exitf_hooked, remote_bus, usb_busses, mem,
                   th, reqs, rsps, shm, proc, ncalls, nsent,
                   synced, scen>>

\* the daemon comes back and publishes a new descriptor
DaemonRestart ==
    /\ Running /\ shm = 3 /\ peer = {}
    /\ shm' = 4
    /\ peer' = {4}
    /\ UNCHANGED <<mutex, remote_fd, exitf_hooked, remote_bus, usb_busses, mem,
                   th, reqs, rsps, proc, ncalls, nsent, synced, scen>>

\* a thread of the application that is in no operation ends the process
\* (exit() or the return from main): the hook registered at line 105 runs
\* deinit_hostfd in that thread, which takes no lock (lines 64-94).  With
\* an empty tree the loop of line 72 has nothing to free, and with no other
\* thread inside an operation the clean-up runs alone, so the exits taken
\* are those with a tree while another thread waits for its response.
AppExit(t) ==
    /\ Running /\ th[t].pc = "idle" /\ exitf_hooked /\ remote_bus # NULL
    /\ \E u \in Threads \ {t} : mutex = u /\ th[u].pc = "recv"
    /\ \E ubmode \in UbModes :
         \E s \in {deinit_hostfd(mem, remote_bus, ubmode)} :
             /\ mem' = MemOf(s, mem.hdl)
             /\ remote_bus' = s.root
             /\ usb_busses' = NULL
    /\ proc' = "terminated"
    /\ UNCHANGED <<mutex, remote_fd, exitf_hooked, th, reqs, rsps, shm, peer,
                   ncalls, nsent, synced, scen>>

Next ==
    \/ \E t \in Threads : Call(t)
    \/ \E t \in Threads : call_lock(t)
    \/ \E t \in Threads : init_hostfd(t)
    \/ \E t \in Threads : pkt_send(t)
    \/ \E t \in Threads : pkt_recv(t)
    \/ \E t \in Threads : call_release(t)
    \/ \E t \in Threads : AppExit(t)
    \/ RemoteAnswer
    \/ PeerLost
    \/ DaemonRestart

Spec == Init /\ [][Next]_vars

SpecTree == InitTree /\ [][Next]_vars

\* The string helpers under a scheduler that lets every thread that can
\* take a step take one, and a remote side that answers every request.
SpecStrings ==
    /\ InitStrings /\ [][Next]_vars
    /\ \A t \in Threads :
          /\ WF_vars(call_lock(t)) /\ WF_vars(init_hostfd(t))
          /\ WF_vars(pkt_send(t)) /\ WF_vars(pkt_recv(t))
          /\ WF_vars(call_release(t))
    /\ WF_vars(RemoteAnswer)

\* ------------------------------------------------------ reading the tree
\* usb_get_busses(), lines 422-427
usb_get_busses == remote_bus

\* the busses from p on, following bus.next
RECURSIVE BusListFrom(_)
BusListFrom(p) == IF p \notin DOMAIN mem.bus THEN <<>>
                  ELSE <<p>> \o BusListFrom(mem.bus[p].next)

\* the devices from p on, following device.next
RECURSIVE DevListFrom(_)
DevListFrom(p) == IF p \notin DOMAIN mem.dev THEN <<>>
                  ELSE <<p>> \o DevListFrom(mem.dev[p].next)

BusList == BusListFrom(remote_bus)
DevList(b) == DevListFrom(mem.bus[b].devices)

Range(f) == {f[i] : i \in DOMAIN f}

\* the storage behind the configuration pointer c
ConfigStorage(c) ==
    IF c \notin DOMAIN mem.cfg THEN {}
    ELSE LET ia   == mem.cfg[c].interface
             alts == IF ia \in DOMAIN mem.ifa
                     THEN {mem.ifa[ia][i].altsetting : i \in DOMAIN mem.ifa[ia]}
                             \cap DOMAIN mem.alt
                     ELSE {}
             eps  == UNION {{mem.alt[a][j].endpoint : j \in DOMAIN mem.alt[a]}
                              : a \in alts} \cap DOMAIN mem.epa
         IN  {c} \cup ({ia} \cap DOMAIN mem.ifa) \cup alts \cup eps

\* every address reachable from the tree root
Reachable ==
    LET bs == Range(BusList)
        ds == UNION {Range(DevList(b)) : b \in bs}
    IN  bs \cup ds \cup UNION {ConfigStorage(mem.dev[d].config) : d \in ds}

\* every address the synchronizer obtained from malloc
SyncNodes == DOMAIN mem.bus \cup DOMAIN mem.dev \cup DOMAIN mem.cfg
             \cup DOMAIN mem.ifa \cup DOMAIN mem.alt \cup DOMAIN mem.epa

\* thread t has come back from pkt_recv in operation op and not yet released
Decoded(t, op) == th[t].pc = "release" /\ th[t].op = op

\* the step in which thread t receives and decodes in operation op
Decodes(t, op) == th[t].pc = "recv" /\ th[t].op = op /\ th'[t].pc = "release"

\* ---------------------------------------------------------------- claims
\* the type of the first field of a body, and the fields as numbers
FirstIsInt(body) == body # <<>> /\ body[1].type = IntegerType
SecondIsInt(body) == Len(body) >= 2 /\ body[2].type = IntegerType

\* C1: at most one caller at a time is between obtaining the transport
\* descriptor and finishing its receive, so no send or receive of one call
\* falls between the send and the receive of another.
C1_OneExchange ==
    Cardinality({t \in Threads : th[t].pc \in {"send", "recv"}}) <= 1

\* a caller waits in call_lock() while another is between send and receive
C1_Witness ==
    \E t, u \in Threads : th[t].pc = "recv" /\ th[u].pc = "lock"

\* C2: every operation that acquired the call lock has released it when it
\* is left, on every path: success, receive or decode failure, and transport
\* failure (init_hostfd finding no usable descriptor).
C2_LockReleasedOnEveryExit ==
    \A t \in Threads : th[t].pc \in {"idle", "exit"} => mutex # t

\* C3: every remote operation does exactly one send and then one receive
\* inside its critical section, and reads the response to its own request,
\* for every sequence of operations including usb_init.
C3_OneSendOneReceive ==
    \A t \in Threads :
        th[t].pc = "release" =>
            /\ th[t].sends = 1 /\ th[t].recvs = 1
            /\ th[t].rx.ok => th[t].rx.seq = th[t].seq

\* C4: a one-shot operation whose response has another opcode, or whose
\* first field is no integer, returns its failure sentinel (a negative
\* integer, NULL for usb_open) and copies nothing to the caller's buffer.
C4_MismatchGivesSentinel ==
    \A t \in Threads :
        (/\ th[t].pc = "release" /\ th[t].op \in OneShotOps /\ th[t].rx.ok
         /\ (th[t].rx.op # th[t].op \/ ~FirstIsInt(th[t].rx.body)))
        => /\ IF th[t].op = UsbOpen THEN th[t].udev = NULL ELSE th[t].res < 0
           /\ th[t].buf = ZeroBytes(th[t].size)

\* C5: usb_find_busses and usb_find_devices, given a response with another
\* opcode, leave the cached tree and the bus list as they were and report no
\* change count from that response.
C5_MismatchGivesNothing ==
    [][\A t \in Threads : \A op \in EnumOps :
         (Decodes(t, op) /\ th'[t].rx.ok /\ th'[t].rx.op # op)
         => /\ th'[t].res = 0
            /\ mem' = mem /\ remote_bus' = remote_bus
            /\ usb_busses' = usb_busses]_vars

\* C10: usb_open returns a handle exactly when the response has the open
\* opcode and a non-negative integer result; the handle then has the token
\* of the second field, the device passed in and unset selectors; otherwise
\* usb_open returns NULL and allocates nothing.
C10_OpenContract ==
    [][\A t \in Threads :
         Decodes(t, UsbOpen) =>
            LET rx == th'[t].rx
                good == /\ rx.ok /\ rx.op = UsbOpen /\ FirstIsInt(rx.body)
                        /\ as_int(rx.body[1].val) >= 0
                u == th'[t].udev
            IN  IF good
                THEN /\ u # NULL /\ u \notin mem.live /\ u \in mem'.live
                     /\ mem'.hdl[u].device = th[t].h
                     /\ mem'.hdl[u].config = 0 - 1
                     /\ mem'.hdl[u].interface = 0 - 1
                     /\ mem'.hdl[u].altsetting = 0 - 1
                     /\ SecondIsInt(rx.body)
                           => mem'.hdl[u].fd = as_int(rx.body[2].val)
                ELSE u = NULL /\ mem' = mem]_vars

\* usb_open has returned a handle whose token is 7
C10_Witness ==
    \E t \in Threads :
        /\ Decoded(t, UsbOpen) /\ th[t].udev # NULL
        /\ mem.hdl[th[t].udev].fd = 7

\* the bus and device lists before and after a step
BusListNext == LET nb == mem'.bus
                   RECURSIVE F(_)
                   F(p) == IF p \notin DOMAIN nb THEN <<>>
                           ELSE <<p>> \o F(nb[p].next)
               IN  F(remote_bus')
DevListNext(b) == LET nd == mem'.dev
                      RECURSIVE F(_)
                      F(p) == IF p \notin DOMAIN nd THEN <<>>
                              ELSE <<p>> \o F(nd[p].next)
                  IN  F(mem'.bus[b].devices)

\* C6: after every usb_find_devices that received a response the bus list
\* has as many busses as the payload has bus records, each bus has as many
\* devices as its record has device elements, and no link reachable from
\* the root refers to a released node.
C6_TreeMatchesPayload ==
    \A t \in Threads :
        (Decoded(t, UsbFindDevices) /\ th[t].rx.ok) =>
            LET body == th[t].rx.body
                recs == BusRecords(body)
            IN  /\ Len(BusList) = Len(recs)
                /\ \A i \in 1..Len(recs) :
                      i <= Len(BusList) =>
                        Len(DevList(BusList[i])) = Len(DeviceRecords(body, recs[i]))
                /\ Reachable \subseteq mem.live

\* C7: a synchronization keeps the node at every bus and device position it
\* has in common with the tree before it, gives new nodes only to positions
\* behind the previous length, and with the payload of the previous
\* synchronization allocates and frees no bus or device node.
C7_PositionalReuse ==
    [][\A t \in Threads :
         (Decodes(t, UsbFindDevices) /\ th'[t].rx.ok) =>
            LET old == BusList
                new == BusListNext
            IN  /\ \A i \in 1..Len(new) :
                      IF i <= Len(old)
                      THEN /\ new[i] = old[i]
                           /\ LET od == DevList(old[i])
                                  nd == DevListNext(new[i])
                              IN  \A j \in 1..Len(nd) :
                                     IF j <= Len(od) THEN nd[j] = od[j]
                                     ELSE nd[j] \notin DOMAIN mem.dev
                      ELSE new[i] \notin DOMAIN mem.bus
                /\ th'[t].same => (th'[t].nalloc = 0 /\ th'[t].nfree = 0)]_vars

\* C8: usb_get_busses returns NULL before any successful enumeration and
\* after one whose response describes no bus; after any other it returns
\* the head of the bus list of that synchronization, the node that holds the
\* data of the first bus record; usb_busses has the same value.
C8_GetBusses ==
    Running =>
        IF synced = <<>> THEN usb_get_busses = NULL
        ELSE LET body == synced[1]
                 recs == BusRecords(body)
             IN  /\ usb_busses = usb_get_busses
                 /\ recs = <<>> => usb_get_busses = NULL
                 /\ usb_get_busses # NULL =>
                       /\ usb_get_busses \in DOMAIN mem.bus \cap mem.live
                       /\ usb_get_busses = BusList[1]
                       /\ \A b \in DOMAIN mem.bus \cap Range(BusList) :
                             mem.bus[b].next # usb_get_busses
                 /\ (recs # <<>> /\ recs[1] = 2) =>
                       /\ usb_get_busses # NULL
                       /\ mem.bus[usb_get_busses].dirname
                             = as_string(body[3].val)

\* a response without bus records has emptied a tree that had busses
C8_Witness ==
    /\ Running /\ synced # <<>> /\ BusRecords(synced[1]) = <<>>
    /\ DOMAIN mem.bus # {} /\ usb_get_busses = NULL
    /\ \A t \in Threads : th[t].pc = "idle"

\* C9: every node the synchronizer allocated is reachable from the tree
\* root or has been released.
C9_NoLeak ==
    (Running /\ \A t \in Threads : th[t].pc # "recv")
        => (SyncNodes \cap mem.live) \subseteq Reachable

\* the handles that hold storage
OpenHandles(m) == DOMAIN m.hdl \cap m.live

\* C11: a handle becomes open only by a successful usb_open and closed only
\* by usb_close; usb_close releases the storage once, after the token was
\* read for the request, whatever the response is, and does not touch the
\* handle after the release.
C11_HandleLifeCycle ==
    [][/\ \A a \in OpenHandles(mem') \ OpenHandles(mem) :
              /\ a \notin DOMAIN mem.hdl /\ a \notin mem.freed
              /\ \E t \in Threads :
                     /\ Decodes(t, UsbOpen) /\ th'[t].udev = a
                     /\ th'[t].res >= 0
       /\ \A a \in OpenHandles(mem) \ OpenHandles(mem') :
              /\ a \in mem'.freed
              /\ \E t \in Threads :
                     /\ th[t].pc = "send" /\ th[t].op = UsbClose /\ th[t].h = a
                     /\ th'[t].pc = "recv"
                     /\ reqs'[Len(reqs')].tok = mem.hdl[a].fd
       /\ \A t \in Threads :
              (th[t].op = UsbClose /\ th[t].pc \in {"recv", "release"}) =>
                  /\ th[t].h \in mem.freed /\ th[t].h \notin mem.live
                  /\ mem'.hdl = mem.hdl
                  /\ th[t].h \in mem'.freed /\ th[t].h \notin mem'.live]_vars

\* usb_close has returned after a response with another opcode
C11_Witness ==
    \E t \in Threads :
        /\ Decoded(t, UsbClose) /\ th[t].rx.ok /\ th[t].rx.op # UsbClose
        /\ th[t].h \in mem.freed


\* a successful response carrying the echo of the remote side: received,
\* matching opcode, a non-negative integer result and an integer second field
EchoedOk(op, rx) ==
    /\ rx.ok /\ rx.op = op
    /\ FirstIsInt(rx.body) /\ as_int(rx.body[1].val) >= 0
    /\ SecondIsInt(rx.body)

\* C12: the cached configuration (alt-setting) selector of a handle changes
\* only in a usb_set_configuration (usb_set_altinterface) call whose response
\* is successful and carries the echo, and then becomes the echo; otherwise
\* it keeps the value it had before the call.
C12_SelectorOnlyFromEcho ==
    [][\A a \in OpenHandles(mem) \cap OpenHandles(mem') :
        /\ mem'.hdl[a].config =
             IF \E t \in Threads :
                    /\ Decodes(t, UsbSetConfiguration) /\ th[t].h = a
                    /\ EchoedOk(UsbSetConfiguration, th'[t].rx)
             THEN as_int((CHOOSE t \in Threads :
                            Decodes(t, UsbSetConfiguration)).rx.body[2].val)
             ELSE mem.hdl[a].config
        /\ mem'.hdl[a].altsetting =
             IF \E t \in Threads :
                    /\ Decodes(t, UsbSetAltInterface) /\ th[t].h = a
                    /\ EchoedOk(UsbSetAltInterface, th'[t].rx)
             THEN as_int((CHOOSE t \in Threads :
                            Decodes(t, UsbSetAltInterface)).rx.body[2].val)
             ELSE mem.hdl[a].altsetting]_vars

\* C13: a one-shot operation returning an integer, given a response with its
\* opcode whose first field is an integer, returns that integer as decoded,
\* negative values included.
C13_ResultVerbatim ==
    \A t \in Threads :
        (/\ Decoded(t, th[t].op) /\ th[t].op \in HandleOps
         /\ th[t].rx.ok /\ th[t].rx.op = th[t].op /\ FirstIsInt(th[t].rx.body))
        => th[t].res = as_int(th[t].rx.body[1].val)

\* an operation has returned a negative result other than the sentinel
C13_Witness ==
    \E t \in Threads :
        /\ Decoded(t, th[t].op) /\ th[t].op \in HandleOps
        /\ th[t].rx.ok /\ th[t].rx.op = th[t].op /\ FirstIsInt(th[t].rx.body)
        /\ th[t].res < 0 - 1

\* C14: a call terminates the process only when, after the probe of the
\* cached descriptor failed, the lookup attempted again in the same call
\* yields no live descriptor either.
C14_ReacquiredBeforeExit ==
    [][\A t \in Threads :
         (th[t].pc = "hostfd" /\ th'[t].pc = "exit")
         => (remote_fd' = NoFd /\ shm \notin peer)]_vars

\* C15: an operation fails to return to its caller only when init_hostfd
\* found no live descriptor; that operation has sent no request and the
\* process has terminated; and no operation sends its request twice.
C15_OnlyTransportIsFatal ==
    \A t \in Threads :
        /\ th[t].sends <= 1
        /\ th[t].pc \in {"exit", "fault"} =>
               /\ th[t].pc = "exit" /\ proc = "exited"
               /\ th[t].sends = 0 /\ remote_fd = NoFd
        /\ proc \in {"exited", "faulted"} => \E u \in Threads : th[u].pc = "exit"

\* C16: usb_find_devices returns the unsigned integer of the first field of
\* the response, 0 when that field is no integer or nothing was received,
\* whatever number of nodes the synchronization allocated or released.
C16_FindDevicesResult ==
    \A t \in Threads :
        Decoded(t, UsbFindDevices) =>
            th[t].res = IF th[t].rx.ok /\ FirstIsInt(th[t].rx.body)
                        THEN as_uint(th[t].rx.body[1].val)
                        ELSE 0

\* usb_find_devices has returned 0 after allocating nodes from a response
\* whose first field is no integer
C16_Witness ==
    \E t \in Threads :
        /\ Decoded(t, UsbFindDevices) /\ th[t].rx.ok
        /\ ~FirstIsInt(th[t].rx.body)
        /\ th[t].res = 0 /\ th[t].nalloc > 0

\* the integer elements of a payload that stand between two raw
\* descriptors, the place of an alt-setting count (line 329)
IntegerCounts(body) ==
    { k \in 2..(Len(body) - 1) :
        /\ body[k].type = IntegerType
        /\ body[k - 1].type = RawType /\ body[k + 1].type = RawType }

\* C17: a device-record field whose tag does not match is treated as
\* absent, so a synchronization that starts from an empty tree, where every
\* node is newly allocated, runs to completion without fault, and an
\* alt-setting count is taken only from an integer element.
C17_AbsentFieldNoFault ==
    [][\A t \in Threads :
         (Decodes(t, UsbFindDevices) /\ remote_bus = NULL /\ th'[t].rx.ok)
         => /\ proc' = "running"
            /\ \A a \in DOMAIN mem'.ifa \ DOMAIN mem.ifa :
               \A i \in DOMAIN mem'.ifa[a] :
                 mem'.ifa[a][i].num_altsetting > 0 =>
                     IntegerCounts(th'[t].rx.body) # {}]_vars

\* C18: when an enumeration response holds a top-level element that is no
\* bus record, the synchronization passes over exactly that element and
\* still brings every bus record of the payload into the tree.
C18_UnrecognizedSkipped ==
    \A t \in Threads :
        (/\ Decoded(t, UsbFindDevices) /\ th[t].rx.ok
         /\ \E i \in Range(TopLevel(th[t].rx.body, 2)) :
                th[t].rx.body[i].type # StructureType)
        => Len(BusList) = Len(BusRecords(th[t].rx.body))

\* C19: the number of bytes the synchronizer writes when it copies a raw
\* device descriptor from the wire into a device node never exceeds the
\* size of struct usb_device_descriptor, whatever the length of the field.
C19_CopyWithinCapacity ==
    \A d \in DOMAIN mem.dev :
        mem.dev[d].written <= SizeDeviceDescriptor

\* C20: for the configuration descriptor, each alt-setting and each endpoint
\* descriptor the synchronizer copies exactly min(length of the wire field,
\* size of the destination structure) bytes, for a field of any length.
C20_DescriptorCopyClamped ==
    [][\A t \in Threads :
         (th[t].pc = "recv" /\ th[t].op = UsbFindDevices /\ th'[t].rx.ok)
         => LET len(n) == Len(th'[t].rx.body[n.at].val)
                Exact(n, size) ==
                    /\ n.copied <= len(n) /\ n.copied <= size
                    /\ n.copied = len(n) \/ n.copied = size
            IN  /\ \A c \in DOMAIN mem'.cfg \ DOMAIN mem.cfg :
                     Exact(mem'.cfg[c], SizeConfigDescriptor)
                /\ \A a \in DOMAIN mem'.alt \ DOMAIN mem.alt :
                     \A j \in DOMAIN mem'.alt[a] :
                        Exact(mem'.alt[a][j], SizeInterfaceDescriptor)
                /\ \A a \in DOMAIN mem'.epa \ DOMAIN mem.epa :
                     \A k \in DOMAIN mem'.epa[a] :
                        Exact(mem'.epa[a][k], SizeEndpointDescriptor)]_vars

\* a tree holds a configuration cut at the size of its structure, a short
\* alt-setting copied whole and an endpoint copied from an empty field
C20_Witness ==
    /\ \E c \in DOMAIN mem.cfg : mem.cfg[c].copied = SizeConfigDescriptor
    /\ \E a \in DOMAIN mem.alt : \E j \in DOMAIN mem.alt[a] :
          mem.alt[a][j].copied = 5
    /\ \E a \in DOMAIN mem.epa : \E k \in DOMAIN mem.epa[a] :
          mem.epa[a][k].copied = 0

\* C21: a read operation given a response with its opcode writes to the
\* caller's buffer only when the result is positive and the second field is
\* a byte field, and the number of bytes it copies exceeds neither the
\* caller's size nor the length of the wire byte field.
C21_ReadCopyBounded ==
    \A t \in Threads :
        (/\ Decoded(t, th[t].op) /\ th[t].op \in ReadOps
         /\ th[t].rx.ok /\ th[t].rx.op = th[t].op)
        => LET n == CopyLen(th[t].op, th[t].rx, th[t].size)
           IN  /\ n <= th[t].size
               /\ n > 0 => /\ th[t].res > 0
                           /\ Len(th[t].rx.body) >= 2
                           /\ th[t].rx.body[2].type = OctetType
                           /\ n <= Len(th[t].rx.body[2].val)
               /\ \A i \in 1..th[t].size : i > n => th[t].buf[i] = 0

\* C22: after every synchronization step, for every device of the tree
\* that has a configuration: the interface array has as many elements as
\* the configuration's interface count, every interface has a non-negative
\* alt-setting count and an alt-setting array of as many elements, and every
\* alt-setting an endpoint array of as many elements as its endpoint count;
\* no array is left to be indexed with a count it was not allocated for.
C22_ArraysMatchCounts ==
    \A t \in Threads :
        (/\ th[t].op = UsbFindDevices /\ th[t].pc \in {"release", "fault"}
         /\ th[t].rx.ok) =>
            \A b \in Range(BusList) : \A d \in Range(DevList(b)) :
                LET c == mem.dev[d].config
                    EndpointsOk(as) ==
                        as.bNumEndpoints > 0 =>
                            /\ as.endpoint \in DOMAIN mem.epa
                            /\ Len(mem.epa[as.endpoint]) = as.bNumEndpoints
                    AltsOk(ifc) ==
                        /\ ifc.num_altsetting >= 0
                        /\ ifc.num_altsetting > 0 =>
                            /\ ifc.altsetting \in DOMAIN mem.alt
                            /\ Len(mem.alt[ifc.altsetting]) = ifc.num_altsetting
                            /\ \A j \in DOMAIN mem.alt[ifc.altsetting] :
                                  EndpointsOk(mem.alt[ifc.altsetting][j])
                IN  c \in DOMAIN mem.cfg =>
                      (mem.cfg[c].bNumInterfaces > 0 =>
                           /\ mem.cfg[c].interface \in DOMAIN mem.ifa
                           /\ Len(mem.ifa[mem.cfg[c].interface])
                                = mem.cfg[c].bNumInterfaces
                           /\ \A i \in DOMAIN mem.ifa[mem.cfg[c].interface] :
                                 AltsOk(mem.ifa[mem.cfg[c].interface][i]))

\* C23: every step that changes the shared tree (the root pointer, a bus or
\* device node or the storage of one) is a step of the thread that holds
\* the call lock.
C23_TreeUnderLock ==
    [][(\/ remote_bus' # remote_bus
        \/ mem'.bus # mem.bus \/ mem'.dev # mem.dev
        \/ (mem'.freed \ mem.freed) \cap (DOMAIN mem.bus \cup DOMAIN mem.dev) # {})
       => (mutex \in Threads /\ th'[mutex] # th[mutex])]_vars

\* C24: after a usb_find_devices that received a response no link of a node
\* of the cached tree refers to the list heads vbus and vdev of the walk:
\* the back link of the first bus and of the first device of a bus is NULL,
\* every other back link refers to the node before it, and a device refers
\* to the bus whose list holds it.
C24_NoSentinelLinks ==
    \A t \in Threads :
        (Decoded(t, UsbFindDevices) /\ th[t].rx.ok) =>
            \A i \in 1..Len(BusList) :
                LET b  == mem.bus[BusList[i]]
                    dl == DevList(BusList[i])
                IN  /\ {b.next, b.prev, b.devices} \cap {VBUS, VDEV} = {}
                    /\ b.prev = IF i = 1 THEN NULL ELSE BusList[i - 1]
                    /\ \A j \in 1..Len(dl) :
                          LET d == mem.dev[dl[j]]
                          IN  /\ {d.next, d.prev, d.bus} \cap {VBUS, VDEV} = {}
                              /\ d.prev = IF j = 1 THEN NULL ELSE dl[j - 1]
                              /\ d.bus = BusList[i]


\* C25: no thread enters call_lock() while it holds the lock: the string
\* helpers are in call_lock() only between their control transfers, and
\* usb_get_string_simple goes on to its second transfer only after the first
\* returned at least 4.  The lock is free whenever no thread is inside an
\* operation, and when the remote side answers every request every call
\* returns, unless the process ends first.
C25_NoSelfDeadlock ==
    /\ [](\A t \in Threads : th[t].pc = "lock" => mutex # t)
    /\ [][\A t \in Threads :
            (th[t].pc = "release" /\ th'[t].pc = "lock")
               => /\ th[t].outer = UsbGetStringSimple /\ th[t].stage = 1
                  /\ th[t].res >= 4
                  /\ mutex' = NoThread]_vars
    /\ []((\A t \in Threads : th[t].pc \in {"idle", "lock"})
             => mutex = NoThread)
    /\ \A t \in Threads :
          (th[t].pc # "idle") ~> (th[t].pc = "idle" \/ ~Running)

\* usb_get_string_simple has done its second control transfer while another
\* thread waits in call_lock()
C25_Witness ==
    \E t \in Threads :
        /\ th[t].outer = UsbGetStringSimple /\ th[t].stage = 2
        /\ th[t].pc = "release" /\ mutex = t
        /\ \E u \in Threads \ {t} : th[u].pc = "lock"
=============================================================================
